---------------------------- MODULE Spec2Model ----------------------------
(***************************************************************************)
(* Model of the ASR post-processing rules (rules.py) and of the            *)
(* post-formatting in PostProcessor.process_one (postprocess_pipeline.py). *)
(*                                                                         *)
(* A Python str is a sequence of characters; a character is a one-element  *)
(* TLA+ string ("a", " ", "@").  The rupee sign U+20B9 is the atom Rupee.  *)
(* A Python exception leaving a function is recorded in the variable       *)
(* raised (the exception's class name), "" meaning a normal return.        *)
(***************************************************************************)
EXTENDS Integers, Sequences, FiniteSets, TLC

VARIABLES
    fn,            \* the function whose call is being followed
    text,          \* its str argument (text, s, num_str)
    seq,           \* words_to_digits: the token list argument
    misspell_map,  \* Dict[str, str] as a sequence of <<key, value>> in insertion order
    names_lex,     \* List[str]
    fuzz_default_process, \* whether rapidfuzz's extractOne preprocesses (library version)
    pc,            \* position in the function's body
    tokens, i, j, out,    \* locals of the token loops
    best,          \* process_one: the local best
    str,           \* normalize_indian_units, normalize_currency: the local s
    t_base, t_full, t_no_names, t_no_nums, t_email_name, cands, \* generate_candidates
    result,        \* the returned value
    result2,       \* what the function returns when called again on result
    raised         \* "" or the name of the exception that left the function

vars == <<fn, text, seq, misspell_map, names_lex, fuzz_default_process, pc,
          tokens, i, j, out, best, str,
          t_base, t_full, t_no_names, t_no_nums, t_email_name, cands,
          result, result2, raised>>

\* the arguments of the call, which no step changes
argVars == <<fn, text, seq, misspell_map, names_lex, fuzz_default_process>>

\* the locals of generate_candidates
gcVars == <<t_base, t_full, t_no_names, t_no_nums, t_email_name, cands>>

-----------------------------------------------------------------------------
(* Characters and the str methods the code uses.                           *)

LowerLetters == <<"a","b","c","d","e","f","g","h","i","j","k","l","m",
                  "n","o","p","q","r","s","t","u","v","w","x","y","z">>

UpperLetters == <<"A","B","C","D","E","F","G","H","I","J","K","L","M",
                  "N","O","P","Q","R","S","T","U","V","W","X","Y","Z">>

Digits == {"0","1","2","3","4","5","6","7","8","9"}

Rupee == "INR"

IsLower(c) == \E k \in 1..26 : LowerLetters[k] = c

IsUpper(c) == \E k \in 1..26 : UpperLetters[k] = c

IsAlphaChar(c) == IsLower(c) \/ IsUpper(c)

IsDigitChar(c) == c \in Digits

\* \w of the re module (ASCII part)
IsWordChar(c) == IsAlphaChar(c) \/ IsDigitChar(c) \/ c = "_"

\* \s of the re module, and the whitespace str.split() and str.strip() use
IsSpace(c) == c \in {" ", "\t"}

ToLower(c) == IF IsUpper(c) THEN LowerLetters[CHOOSE k \in 1..26 : UpperLetters[k] = c] ELSE c

ToUpper(c) == IF IsLower(c) THEN UpperLetters[CHOOSE k \in 1..26 : LowerLetters[k] = c] ELSE c

\* str.lower()
Lower(s) == [k \in 1..Len(s) |-> ToLower(s[k])]

\* s[a:] with a 0-based, as a 1-based sequence
From(s, a) == SubSeq(s, a + 1, Len(s))

\* str.isdigit()
IsDigitStr(s) == Len(s) > 0 /\ \A k \in 1..Len(s) : IsDigitChar(s[k])

\* str.isalpha()
IsAlphaStr(s) == Len(s) > 0 /\ \A k \in 1..Len(s) : IsAlphaChar(s[k])

\* s[p:p+len(w)] == w, p 0-based; with ci the comparison of re.IGNORECASE
MatchAt(s, p, w, ci) ==
    /\ p + Len(w) <= Len(s)
    /\ \A k \in 1..Len(w) :
          IF ci THEN ToLower(s[p + k]) = ToLower(w[k]) ELSE s[p + k] = w[k]

\* \b at offset p (between s[p] and s[p+1], 1-based), as the re module defines it
WordBoundary(s, p) ==
    LET before == p >= 1 /\ p <= Len(s) /\ IsWordChar(s[p])
        after  == p + 1 >= 1 /\ p + 1 <= Len(s) /\ IsWordChar(s[p + 1])
    IN  before # after

RECURSIVE SplitFrom(_, _, _, _)
SplitFrom(s, p, cur, acc) ==
    IF p > Len(s) THEN (IF cur = <<>> THEN acc ELSE Append(acc, cur))
    ELSE IF IsSpace(s[p])
         THEN SplitFrom(s, p + 1, <<>>, IF cur = <<>> THEN acc ELSE Append(acc, cur))
         ELSE SplitFrom(s, p + 1, Append(cur, s[p]), acc)

\* str.split(): the maximal runs of non-whitespace characters
Split(s) == SplitFrom(s, 1, <<>>, <<>>)

RECURSIVE Join(_, _)
\* sep.join(toks)
Join(sep, toks) ==
    IF toks = <<>> THEN <<>>
    ELSE IF Len(toks) = 1 THEN toks[1]
    ELSE toks[1] \o sep \o Join(sep, Tail(toks))

RECURSIVE Concat(_)
\* ''.join(toks)
Concat(toks) == IF toks = <<>> THEN <<>> ELSE toks[1] \o Concat(Tail(toks))

RECURSIVE LStrip(_)
LStrip(s) == IF s # <<>> /\ IsSpace(s[1]) THEN LStrip(Tail(s)) ELSE s

RECURSIVE RStrip(_)
\* str.rstrip()
RStrip(s) == IF s # <<>> /\ IsSpace(s[Len(s)]) THEN RStrip(SubSeq(s, 1, Len(s) - 1)) ELSE s

\* str.strip()
Strip(s) == LStrip(RStrip(s))

\* the strings of length at most n over the characters A
Strs(A, n) == UNION {[1..k -> A] : k \in 0..n}

\* the token lists of length at most n over the tokens V
TokenLists(V, n) == UNION {[1..k -> V] : k \in 0..n}

Nil == <<>>

-----------------------------------------------------------------------------
(* indian_group, rules.py 182-194                                          *)

RECURSIVE GroupRestFrom(_, _)
\* re.sub(r'(\d)(?=(\d\d)+\d$)', r'\1,', rest) from offset p on: a digit is
\* followed by a comma when an odd number, at least 3, of digits follows it
\* up to the end of rest.
GroupRestFrom(rest, p) ==
    IF p > Len(rest) THEN <<>>
    ELSE LET m == Len(rest) - p
             ahead == /\ m >= 3
                      /\ m % 2 = 1
                      /\ \A k \in (p + 1)..Len(rest) : IsDigitChar(rest[k])
         IN  IF IsDigitChar(rest[p]) /\ ahead
             THEN <<rest[p], ",">> \o GroupRestFrom(rest, p + 1)
             ELSE <<rest[p]>> \o GroupRestFrom(rest, p + 1)

indian_group(num_str) ==
    IF ~IsDigitStr(num_str) THEN num_str
    ELSE IF Len(num_str) <= 3 THEN num_str
    ELSE LET last3 == SubSeq(num_str, Len(num_str) - 2, Len(num_str))
             rest  == SubSeq(num_str, 1, Len(num_str) - 3)
             grouped_rest == GroupRestFrom(rest, 1)
         IN  grouped_rest \o <<",">> \o last3

\* bound: the longest num_str tried
MaxNumLen == 7

\* the characters num_str is drawn from: two digits, a letter and a comma
NumChars == {"1", "2", "a", ","}

\* the arguments a function does not take
NoSeq == seq = Nil

NoMap == misspell_map = Nil

NoLexicon == names_lex = Nil /\ fuzz_default_process = FALSE

\* no local is assigned before the call starts
IdleLocals ==
    /\ tokens = Nil /\ i = 0 /\ j = 0 /\ out = Nil /\ best = Nil /\ str = Nil
    /\ t_base = Nil /\ t_full = Nil /\ t_no_names = Nil /\ t_no_nums = Nil
    /\ t_email_name = Nil /\ cands = {}
    /\ result = Nil /\ result2 = Nil /\ raised = ""

InitIndianGroup ==
    /\ fn = "indian_group"
    /\ text \in Strs(NumChars, MaxNumLen)
    /\ pc = "call"
    /\ NoSeq /\ NoMap /\ NoLexicon
    /\ IdleLocals

CallIndianGroup ==
    /\ fn = "indian_group" /\ pc = "call"
    /\ result' = indian_group(text)
    /\ pc' = "done"
    /\ UNCHANGED <<argVars, gcVars, tokens, i, j, out, best, str, result2, raised>>

SpecIndianGroup == InitIndianGroup /\ [][CallIndianGroup]_vars

RECURSIVE PairsFromRight(_)
\* the digits d in pairs from the right, each pair (and a leading single
\* digit) followed by a comma
PairsFromRight(d) ==
    IF Len(d) = 0 THEN <<>>
    ELSE IF Len(d) <= 2 THEN d \o <<",">>
    ELSE PairsFromRight(SubSeq(d, 1, Len(d) - 2)) \o SubSeq(d, Len(d) - 1, Len(d)) \o <<",">>

\* Indian grouping as the documentation states it: ..XX,XX,XXX
IndianGrouping(d) ==
    PairsFromRight(SubSeq(d, 1, Len(d) - 3)) \o SubSeq(d, Len(d) - 2, Len(d))

\* C2: indian_group returns a pure-digit string of more than 3 digits with
\* its last 3 digits as one group and the digits before them in pairs from
\* the right, comma separated, and returns any other string unchanged.
C2_IndianGrouping ==
    (fn = "indian_group" /\ pc = "done") =>
        IF IsDigitStr(text) /\ Len(text) > 3
        THEN result = IndianGrouping(text)
        ELSE result = text

-----------------------------------------------------------------------------
(* words_to_digits, rules.py 90-121                                        *)

W_double == <<"d","o","u","b","l","e">>

W_triple == <<"t","r","i","p","l","e">>

\* the dict NUM_WORD as its set of <<key, value>> items
NUM_WORD ==
    { <<<<"z","e","r","o">>, "0">>, <<<<"o","h">>, "0">>,
      <<<<"o","n","e">>, "1">>, <<<<"t","w","o">>, "2">>,
      <<<<"t","h","r","e","e">>, "3">>, <<<<"f","o","u","r">>, "4">>,
      <<<<"f","i","v","e">>, "5">>, <<<<"s","i","x">>, "6">>,
      <<<<"s","e","v","e","n">>, "7">>, <<<<"e","i","g","h","t">>, "8">>,
      <<<<"n","i","n","e">>, "9">> }

\* tok in NUM_WORD
InNumWord(tok) == \E kv \in NUM_WORD : kv[1] = tok

\* NUM_WORD[tok]
NumWordOf(tok) == (CHOOSE kv \in NUM_WORD : kv[1] = tok)[2]

\* c * times
Repeat(c, times) == [k \in 1..times |-> c]

\* one pass through the body of the while loop, with brk set when it breaks,
\* but a "double X" pair advancing i by one token only
WtdIterPairByOne(seq_, i_, out_) ==
    LET tok == Lower(seq_[i_ + 1])
    IN  IF tok \in {W_double, W_triple} /\ i_ + 1 < Len(seq_)
        THEN LET times == IF tok = W_double THEN 2 ELSE 3
                 nxt == Lower(seq_[i_ + 2])
             IN  IF InNumWord(nxt)
                 THEN [i |-> i_ + 1, out |-> Append(out_, Repeat(NumWordOf(nxt), times)), brk |-> FALSE]
                 ELSE [i |-> i_, out |-> out_, brk |-> TRUE]
        ELSE IF InNumWord(tok)
             THEN [i |-> i_ + 1, out |-> Append(out_, <<NumWordOf(tok)>>), brk |-> FALSE]
             ELSE [i |-> i_, out |-> out_, brk |-> TRUE]

\* one pass through the body of the while loop (lines 103-120), with brk set
\* when it breaks
WtdIter(seq_, i_, out_) ==
    LET tok == Lower(seq_[i_ + 1])
    IN  IF tok \in {W_double, W_triple} /\ i_ + 1 < Len(seq_)
        THEN LET times == IF tok = W_double THEN 2 ELSE 3
                 nxt == Lower(seq_[i_ + 2])
             IN  IF InNumWord(nxt)
                 THEN [i |-> i_ + 2, out |-> Append(out_, Repeat(NumWordOf(nxt), times)), brk |-> FALSE]
                 ELSE [i |-> i_, out |-> out_, brk |-> TRUE]
        ELSE IF InNumWord(tok)
             THEN [i |-> i_ + 1, out |-> Append(out_, <<NumWordOf(tok)>>), brk |-> FALSE]
             ELSE [i |-> i_, out |-> out_, brk |-> TRUE]

RECURSIVE WtdLoop(_, _, _)
\* the while loop and the return statement, from the loop state (i_, out_)
WtdLoop(seq_, i_, out_) ==
    IF i_ < Len(seq_)
    THEN LET r == WtdIter(seq_, i_, out_)
         IN  IF r.brk THEN <<Concat(r.out), r.i>> ELSE WtdLoop(seq_, r.i, r.out)
    ELSE <<Concat(out_), i_>>

\* words_to_digits(seq): <<digits, tokens consumed>>
words_to_digits(seq_) == WtdLoop(seq_, 0, <<>>)

\* bound: the longest token list given to words_to_digits
MaxSeqLen == 4

\* the tokens seq is drawn from: digit words (one of them capitalised), the
\* two multipliers and a word that is neither
WtdVocab ==
    { <<"o","n","e">>, <<"N","i","n","e">>, <<"o","h">>, W_double, W_triple, <<"x">> }

InitWordsToDigits ==
    /\ fn = "words_to_digits"
    /\ seq \in TokenLists(WtdVocab, MaxSeqLen)
    /\ text = Nil
    /\ pc = "loop"
    /\ NoMap /\ NoLexicon
    /\ IdleLocals

\* lines 102-120: one iteration of the while loop, or its exit
WtdStep ==
    /\ fn = "words_to_digits" /\ pc = "loop"
    /\ IF i < Len(seq)
       THEN LET r == WtdIter(seq, i, out)
            IN  /\ i' = r.i
                /\ out' = r.out
                /\ pc' = IF r.brk THEN "return" ELSE "loop"
       ELSE /\ pc' = "return"
            /\ UNCHANGED <<i, out>>
    /\ UNCHANGED <<argVars, gcVars, tokens, j, best, str, result, result2, raised>>

\* line 121
WtdReturn ==
    /\ fn = "words_to_digits" /\ pc = "return"
    /\ result' = <<Concat(out), i>>
    /\ pc' = "done"
    /\ UNCHANGED <<argVars, gcVars, tokens, i, j, out, best, str, result2, raised>>

NextWordsToDigits == WtdStep \/ WtdReturn

SpecWordsToDigits == InitWordsToDigits /\ [][NextWordsToDigits]_vars

\* a recognized digit word (zero..nine, oh)
IsDigitWord(t) == InNumWord(Lower(t))

\* "double" or "triple"
IsMultiplier(t) == Lower(t) \in {W_double, W_triple}

RECURSIVE UnitPrefix(_, _)
\* the first k tokens of s are digit words and "double X"/"triple X" pairs
UnitPrefix(s, k) ==
    \/ k = 0
    \/ /\ k >= 1
       /\ IsDigitWord(s[k])
       /\ \/ UnitPrefix(s, k - 1)
          \/ k >= 2 /\ IsMultiplier(s[k - 1]) /\ UnitPrefix(s, k - 2)

\* the length of the longest such prefix
LongestUnitPrefix(s) ==
    CHOOSE k \in 0..Len(s) :
        UnitPrefix(s, k) /\ \A m \in (k + 1)..Len(s) : ~UnitPrefix(s, m)

RECURSIVE UnitDigits(_, _)
\* the digits of the first k tokens of s: X once, or 2 or 3 times in a pair
UnitDigits(s, k) ==
    IF k = 0 THEN <<>>
    ELSE IF k >= 2 /\ IsMultiplier(s[k - 1])
         THEN UnitDigits(s, k - 2)
              \o Repeat(NumWordOf(Lower(s[k])), IF Lower(s[k - 1]) = W_double THEN 2 ELSE 3)
         ELSE UnitDigits(s, k - 1) \o <<NumWordOf(Lower(s[k]))>>

\* C5: words_to_digits returns the digits of the longest prefix of seq made
\* of digit words and "double X"/"triple X" pairs, and the number of tokens
\* of that prefix; a multiplier that is last or is not followed by a digit
\* word is not consumed.
C5_LongestUnitPrefix ==
    (fn = "words_to_digits" /\ pc = "done") =>
        LET k == LongestUnitPrefix(seq)
        IN  /\ result = <<UnitDigits(seq, k), k>>
            /\ (seq = <<W_triple, <<"N","i","n","e">>>> => result = <<<<"9","9","9">>, 2>>)
            /\ (seq = <<W_double>> => result = <<<<>>, 0>>)

\* C5 witness: words_to_digits(["triple", "Nine"]) has returned ("999", 2)
C5_Witness ==
    /\ fn = "words_to_digits" /\ pc = "done"
    /\ seq = <<W_triple, <<"N","i","n","e">>>>
    /\ result = <<<<"9","9","9">>, 2>>

-----------------------------------------------------------------------------
(* normalize_numbers_spoken, rules.py 123-143                              *)

\* one pass through the body of the while loop, but collapsing as soon as a
\* single digit is produced
NnsIterOneDigit(tokens_, i_, out_) ==
    LET r == words_to_digits(From(tokens_, i_))
        digits == r[1]
        consumed == r[2]
    IN  IF consumed > 0 /\ Len(digits) >= 1
        THEN [i |-> i_ + consumed, out |-> Append(out_, digits)]
        ELSE [i |-> i_ + 1, out |-> Append(out_, tokens_[i_ + 1])]

\* one pass through the body of the while loop (lines 132-142)
NnsIter(tokens_, i_, out_) ==
    LET r == words_to_digits(From(tokens_, i_))
        digits == r[1]
        consumed == r[2]
    IN  IF consumed > 0 /\ Len(digits) >= 2
        THEN [i |-> i_ + consumed, out |-> Append(out_, digits)]
        ELSE [i |-> i_ + 1, out |-> Append(out_, tokens_[i_ + 1])]

RECURSIVE NnsLoop(_, _, _)
NnsLoop(tokens_, i_, out_) ==
    IF i_ < Len(tokens_)
    THEN LET r == NnsIter(tokens_, i_, out_) IN NnsLoop(tokens_, r.i, r.out)
    ELSE Join(<<" ">>, out_)

normalize_numbers_spoken(s) == NnsLoop(Split(s), 0, <<>>)

\* bound: the most tokens of a text given to normalize_numbers_spoken
MaxNnsTokens == 4

NnsVocab ==
    { <<"o","n","e">>, <<"f","i","v","e">>, W_double, <<"i">>, <<"a","p","p","l","e">> }

T_INeedOneApple ==
    <<"i"," ","n","e","e","d"," ","o","n","e"," ","a","p","p","l","e">>

T_CallDoubleFiveDoubleFive ==
    <<"c","a","l","l"," ","d","o","u","b","l","e"," ","f","i","v","e"," ",
      "d","o","u","b","l","e"," ","f","i","v","e">>

T_Call5555 == <<"c","a","l","l"," ","5","5","5","5">>

\* the texts normalize_numbers_spoken is given: the token lists over the
\* vocabulary joined by one space, the specification's two examples, and a
\* text with leading, doubled and trailing whitespace
NnsTexts ==
    {Join(<<" ">>, t) : t \in TokenLists(NnsVocab, MaxNnsTokens)}
    \cup {T_INeedOneApple, T_CallDoubleFiveDoubleFive,
          <<" ","o","n","e"," "," ","T","r","i","p","l","e","\t","t","w","o"," ">>}

InitNumbersSpoken ==
    /\ fn = "normalize_numbers_spoken"
    /\ text \in NnsTexts
    /\ pc = "split"
    /\ NoSeq /\ NoMap /\ NoLexicon
    /\ IdleLocals

\* lines 127-129
NnsSplit ==
    /\ fn = "normalize_numbers_spoken" /\ pc = "split"
    /\ tokens' = Split(text)
    /\ out' = <<>>
    /\ i' = 0
    /\ pc' = "loop"
    /\ UNCHANGED <<argVars, gcVars, j, best, str, result, result2, raised>>

\* lines 130-142: one iteration of the while loop
NnsStep ==
    /\ fn = "normalize_numbers_spoken" /\ pc = "loop"
    /\ i < Len(tokens)
    /\ LET r == NnsIter(tokens, i, out)
       IN  i' = r.i /\ out' = r.out
    /\ UNCHANGED <<argVars, gcVars, pc, tokens, j, best, str, result, result2, raised>>

\* line 143
NnsReturn ==
    /\ fn = "normalize_numbers_spoken" /\ pc = "loop"
    /\ ~(i < Len(tokens))
    /\ result' = Join(<<" ">>, out)
    /\ pc' = "done"
    /\ UNCHANGED <<argVars, gcVars, tokens, i, j, out, best, str, result2, raised>>

NextNumbersSpoken == NnsSplit \/ NnsStep \/ NnsReturn

SpecNumbersSpoken == InitNumbersSpoken /\ [][NextNumbersSpoken]_vars

\* token p of toks is a digit word with no digit word next to it and no
\* "double"/"triple" before it
IsolatedDigitWord(toks, p) ==
    /\ IsDigitWord(toks[p])
    /\ p > 1 => ~IsDigitWord(toks[p - 1]) /\ ~IsMultiplier(toks[p - 1])
    /\ p < Len(toks) => ~IsDigitWord(toks[p + 1])

\* token p of toks is followed by a "double X"/"triple X" pair
BeforePair(toks, p) ==
    p + 2 <= Len(toks) /\ IsMultiplier(toks[p + 1]) /\ IsDigitWord(toks[p + 2])

\* the scan rule of normalize_numbers_spoken, for a step of the loop at
\* position i: the longest unit prefix is replaced by its digits when it
\* gives at least 2 digits, else the token is emitted and i advances by one
ScanRule ==
    (fn = "normalize_numbers_spoken" /\ pc = "loop" /\ i < Len(tokens)) =>
        LET rest == From(tokens, i)
            k == LongestUnitPrefix(rest)
            d == UnitDigits(rest, k)
        IN  IF Len(d) >= 2
            THEN i' = i + k /\ out' = Append(out, d)
            ELSE i' = i + 1 /\ out' = Append(out, tokens[i + 1])

\* the returned text is the emitted tokens joined by one space, and the two
\* examples of the specification
ScanResult ==
    (fn = "normalize_numbers_spoken" /\ pc' = "done") =>
        /\ tokens = Split(text)
        /\ result' = Join(<<" ">>, out)
        /\ text = T_INeedOneApple => result' = text
        /\ text = T_CallDoubleFiveDoubleFive => result' = T_Call5555

\* C6 (as stated): normalize_numbers_spoken follows the scan rule, and so a
\* digit word that is not adjacent to another digit word and not preceded by
\* "double"/"triple" is emitted unchanged, as a token of its own.
C6_IsolatedDigitWordKept ==
    [][ /\ ScanRule
        /\ ScanResult
        /\ (fn = "normalize_numbers_spoken" /\ pc = "loop") =>
              \A p \in (i + 1)..i' :
                  IsolatedDigitWord(tokens, p) =>
                      i' = i + 1 /\ out' = Append(out, tokens[p]) ]_vars

\* C6 (amended): normalize_numbers_spoken follows the scan rule, and so a
\* digit word that is not adjacent to another digit word, not preceded by
\* "double"/"triple" and not followed by a "double X"/"triple X" pair is
\* emitted unchanged, as a token of its own.
C6_IsolatedDigitWordKeptUnlessBeforePair ==
    [][ /\ ScanRule
        /\ ScanResult
        /\ (fn = "normalize_numbers_spoken" /\ pc = "loop") =>
              \A p \in (i + 1)..i' :
                  (IsolatedDigitWord(tokens, p) /\ ~BeforePair(tokens, p)) =>
                      i' = i + 1 /\ out' = Append(out, tokens[p]) ]_vars

\* C6 witness: "i need one apple" has been returned unchanged
C6_Witness ==
    /\ fn = "normalize_numbers_spoken" /\ pc = "done"
    /\ text = T_INeedOneApple
    /\ tokens[3] = <<"o","n","e">> /\ IsolatedDigitWord(tokens, 3)
    /\ result = text

-----------------------------------------------------------------------------
(* collapse_spelled_letters, rules.py 50-78                                *)

\* len(tok) == 1 and tok.isalpha() (lines 61 and 64)
IsSingleLetter(tok) == Len(tok) = 1 /\ IsAlphaStr(tok)

\* the test of line 68, but asking for a run of 3
CollapsesRunOfThree(i_, j_) == j_ - i_ >= 3

\* j - i >= 2 (line 68): the run tokens[i:j] is collapsed
CollapsesRun(i_, j_) == j_ - i_ >= 2

RECURSIVE CslInnerLoop(_, _)
\* the inner while loop (lines 64-65): the j it ends with
CslInnerLoop(tokens_, j_) ==
    IF j_ < Len(tokens_) /\ IsSingleLetter(tokens_[j_ + 1])
    THEN CslInnerLoop(tokens_, j_ + 1)
    ELSE j_

RECURSIVE CslLoop(_, _, _)
\* the outer while loop and the return statement
CslLoop(tokens_, i_, out_) ==
    IF i_ < Len(tokens_)
    THEN IF IsSingleLetter(tokens_[i_ + 1])
         THEN LET j_ == CslInnerLoop(tokens_, i_ + 1)
              IN  IF CollapsesRun(i_, j_)
                  THEN CslLoop(tokens_, j_, Append(out_, Concat(SubSeq(tokens_, i_ + 1, j_))))
                  ELSE CslLoop(tokens_, i_ + 1, Append(out_, tokens_[i_ + 1]))
         ELSE CslLoop(tokens_, i_ + 1, Append(out_, tokens_[i_ + 1]))
    ELSE Join(<<" ">>, out_)

collapse_spelled_letters(s) == CslLoop(Split(s), 0, <<>>)

\* bound: the most tokens of a text given to collapse_spelled_letters
MaxCslTokens == 5

\* single letters, a single digit, and longer words
CslVocab == { <<"g">>, <<"M">>, <<"1">>, <<"i","s">> }

T_GMailIsMyId ==
    <<"g"," ","m"," ","a"," ","i"," ","l"," ","i","s"," ","m","y"," ","i","d">>

T_GmailIsMyId == <<"g","m","a","i","l"," ","i","s"," ","m","y"," ","i","d">>

CslTexts ==
    {Join(<<" ">>, t) : t \in TokenLists(CslVocab, MaxCslTokens)}
    \cup {T_GMailIsMyId, <<" ","a"," "," ","b","\t","c","d"," ","e"," ">>}

InitCollapse ==
    /\ fn = "collapse_spelled_letters"
    /\ text \in CslTexts
    /\ pc = "split"
    /\ NoSeq /\ NoMap /\ NoLexicon
    /\ IdleLocals

\* lines 56-58
CslSplit ==
    /\ fn = "collapse_spelled_letters" /\ pc = "split"
    /\ tokens' = Split(text)
    /\ out' = <<>>
    /\ i' = 0
    /\ pc' = "outer"
    /\ UNCHANGED <<argVars, gcVars, j, best, str, result, result2, raised>>

\* lines 59-62 and 75-77: the outer loop's test and the first test of its body
CslOuter ==
    /\ fn = "collapse_spelled_letters" /\ pc = "outer"
    /\ i < Len(tokens)
    /\ IF IsSingleLetter(tokens[i + 1])
       THEN /\ j' = i + 1
            /\ pc' = "inner"
            /\ UNCHANGED <<i, out>>
       ELSE /\ out' = Append(out, tokens[i + 1])
            /\ i' = i + 1
            /\ UNCHANGED <<j, pc>>
    /\ UNCHANGED <<argVars, gcVars, tokens, best, str, result, result2, raised>>

\* lines 64-65: one iteration of the inner loop
CslInner ==
    /\ fn = "collapse_spelled_letters" /\ pc = "inner"
    /\ j < Len(tokens) /\ IsSingleLetter(tokens[j + 1])
    /\ j' = j + 1
    /\ UNCHANGED <<argVars, gcVars, pc, tokens, i, out, best, str, result, result2, raised>>

\* lines 68-74: the inner loop has ended
CslEndRun ==
    /\ fn = "collapse_spelled_letters" /\ pc = "inner"
    /\ ~(j < Len(tokens) /\ IsSingleLetter(tokens[j + 1]))
    /\ IF CollapsesRun(i, j)
       THEN /\ out' = Append(out, Concat(SubSeq(tokens, i + 1, j)))
            /\ i' = j
       ELSE /\ out' = Append(out, tokens[i + 1])
            /\ i' = i + 1
    /\ pc' = "outer"
    /\ UNCHANGED <<argVars, gcVars, tokens, j, best, str, result, result2, raised>>

\* line 78
CslReturn ==
    /\ fn = "collapse_spelled_letters" /\ pc = "outer"
    /\ ~(i < Len(tokens))
    /\ result' = Join(<<" ">>, out)
    /\ pc' = "done"
    /\ UNCHANGED <<argVars, gcVars, tokens, i, j, out, best, str, result2, raised>>

NextCollapse == CslSplit \/ CslOuter \/ CslInner \/ CslEndRun \/ CslReturn

SpecCollapse == InitCollapse /\ [][NextCollapse]_vars

\* a one-character alphabetic token
SingleAlpha(t) == Len(t) = 1 /\ IsAlphaChar(t[1])

\* position p of toks starts a maximal run of single-letter tokens
RunStart(toks, p) == SingleAlpha(toks[p]) /\ (p = 1 \/ ~SingleAlpha(toks[p - 1]))

\* the last position of the maximal run that starts at p
RunEnd(toks, p) ==
    CHOOSE q \in p..Len(toks) :
        /\ \A k \in p..q : SingleAlpha(toks[k])
        /\ q = Len(toks) \/ ~SingleAlpha(toks[q + 1])

\* what position p of toks contributes to the output: a token that is not a
\* single letter itself, the start of a run the whole run joined, and the
\* other positions of a run nothing
Piece(toks, p) ==
    IF ~SingleAlpha(toks[p]) THEN <<toks[p]>>
    ELSE IF RunStart(toks, p) THEN <<Concat(SubSeq(toks, p, RunEnd(toks, p)))>>
    ELSE <<>>

RECURSIVE Pieces(_, _)
Pieces(toks, p) == IF p > Len(toks) THEN <<>> ELSE Piece(toks, p) \o Pieces(toks, p + 1)

\* C7: collapse_spelled_letters joins each maximal run of two or more
\* single-letter tokens into one token, leaves a run of one and every other
\* token unchanged and in order, so that no two adjacent tokens of its output
\* are single letters.
C7_MaximalRunsJoined ==
    (fn = "collapse_spelled_letters" /\ pc = "done") =>
        LET toks == Split(text)
            outs == Split(result)
        IN  /\ outs = Pieces(toks, 1)
            /\ result = Join(<<" ">>, outs)
            /\ \A p \in 1..(Len(outs) - 1) :
                  ~(SingleAlpha(outs[p]) /\ SingleAlpha(outs[p + 1]))
            /\ text = T_GMailIsMyId => result = T_GmailIsMyId

\* C7 witness: "g m a i l is my id" has been returned as "gmail is my id"
C7_Witness ==
    /\ fn = "collapse_spelled_letters" /\ pc = "done"
    /\ text = T_GMailIsMyId
    /\ result = T_GmailIsMyId

-----------------------------------------------------------------------------
(* correct_common_misspells, rules.py 8-12                                 *)

\* a function's outcome: the value it returns, or the exception it raises
Returned(v) == [raised |-> "", val |-> v]

Raised(e) == [raised |-> e, val |-> <<>>]

\* the outcome r of the rest of a scan, after the piece pre has been emitted
Emit(pre, r) == IF r.raised # "" THEN r ELSE Returned(pre \o r.val)

\* misspell_map.keys(), in insertion order
Keys(map) == [k \in 1..Len(map) |-> map[k][1]]

\* key in misspell_map
HasKey(map, key) == \E k \in 1..Len(map) : map[k][1] = key

\* misspell_map[key]
Lookup(map, key) == map[CHOOSE k \in 1..Len(map) : map[k][1] = key][2]

\* the alternatives of the group in r'\b(' + '|'.join(...) + r')\b': the
\* escaped keys in order; with no key the group is (), one empty alternative
Alternatives(map) == IF map = <<>> THEN << <<>> >> ELSE Keys(map)

\* alternative k matches at offset p with no \b around it
CcmMatchKeyNoBoundary(s, p, k) == MatchAt(s, p, k, TRUE)

\* \b(k)\b, re.IGNORECASE, matches at offset p of s (line 11)
CcmMatchKey(s, p, k) ==
    /\ WordBoundary(s, p)
    /\ MatchAt(s, p, k, TRUE)
    /\ WordBoundary(s, p + Len(k))

RECURSIVE CcmSub(_, _, _, _)
\* pattern.sub(lambda m: misspell_map[m.group(0).lower()], text) from offset
\* p on (line 12).  The first alternative that matches at p is replaced by
\* the map's entry for its lower-cased text, a KeyError leaving the function
\* when the map has none; after an empty match only a non-empty match may
\* follow at the same offset (advance); without a match one character is
\* copied.
CcmSub(s, p, map, advance) ==
    LET alts == Alternatives(map)
        hits == {a \in 1..Len(alts) :
                    CcmMatchKey(s, p, alts[a]) /\ (advance => Len(alts[a]) > 0)}
    IN  IF hits = {}
        THEN IF p >= Len(s) THEN Returned(<<>>)
             ELSE Emit(<<s[p + 1]>>, CcmSub(s, p + 1, map, FALSE))
        ELSE LET a == CHOOSE x \in hits : \A y \in hits : x <= y
                 n == Len(alts[a])
                 group0 == Lower(SubSeq(s, p + 1, p + n))
             IN  IF ~HasKey(map, group0) THEN Raised("KeyError")
                 ELSE IF n = 0
                      THEN Emit(Lookup(map, group0), CcmSub(s, p, map, TRUE))
                      ELSE Emit(Lookup(map, group0), CcmSub(s, p + n, map, FALSE))

correct_common_misspells(s, map) == CcmSub(s, 0, map, FALSE)

\* bound: the most tokens of a text given to correct_common_misspells
MaxCcmTokens == 3

CcmVocab == { <<"a">>, <<"B">>, <<"a","b">>, <<"T","e","h">>, <<"b",".">> }

Map_Empty == <<>>

Map_Teh == << << <<"t","e","h">>, <<"t","h","e">> >> >>

\* a replacement that is itself a key
Map_Chain == << << <<"a">>, <<"b">> >>, << <<"b">>, <<"c">> >> >>

\* a replacement that holds a key, but not as a whole word
Map_Inside == << << <<"a">>, <<"b","a">> >> >>

\* a key of two words only
Map_TwoWords == << << <<"a"," ","b">>, <<"c">> >> >>

CcmMaps == {Map_Empty, Map_Teh, Map_Chain, Map_Inside, Map_TwoWords}

CcmTexts ==
    {Join(<<" ">>, t) : t \in TokenLists(CcmVocab, MaxCcmTokens)}
    \cup { <<" ">>, <<" ","a"," "," ","t","e","h","\t">> }

InitMisspell ==
    /\ fn = "correct_common_misspells"
    /\ text \in CcmTexts
    /\ misspell_map \in CcmMaps
    /\ pc = "call"
    /\ NoSeq /\ NoLexicon
    /\ IdleLocals

\* correct_common_misspells(text, misspell_map) returns
CcmCall ==
    /\ fn = "correct_common_misspells" /\ pc = "call"
    /\ LET r == correct_common_misspells(text, misspell_map)
       IN  /\ r.raised = ""
           /\ result' = r.val
    /\ pc' = "once"
    /\ UNCHANGED <<argVars, gcVars, tokens, i, j, out, best, str, result2, raised>>

\* correct_common_misspells(text, misspell_map) raises
CcmCallRaises ==
    /\ fn = "correct_common_misspells" /\ pc = "call"
    /\ LET r == correct_common_misspells(text, misspell_map)
       IN  /\ r.raised # ""
           /\ raised' = r.raised
    /\ pc' = "raised"
    /\ UNCHANGED <<argVars, gcVars, tokens, i, j, out, best, str, result, result2>>

\* the caller passes the returned text to correct_common_misspells again
CcmCallAgain ==
    /\ fn = "correct_common_misspells" /\ pc = "once"
    /\ LET r == correct_common_misspells(result, misspell_map)
       IN  /\ result2' = r.val
           /\ raised' = r.raised
           /\ pc' = IF r.raised = "" THEN "twice" ELSE "raised_again"
    /\ UNCHANGED <<argVars, gcVars, tokens, i, j, out, best, str, result>>

NextMisspell == CcmCall \/ CcmCallRaises \/ CcmCallAgain

SpecMisspell == InitMisspell /\ [][NextMisspell]_vars

\* a key of one word: word characters only, at least one
SingleWordKey(k) == Len(k) > 0 /\ \A c \in 1..Len(k) : IsWordChar(k[c])

\* C9: correct_common_misspells returns the text unchanged, and does not
\* raise, whenever the map holds no single-word key (the empty map included).
C9_NoSingleWordKeyUnchanged ==
    (/\ fn = "correct_common_misspells"
     /\ pc \in {"once", "raised"}
     /\ \A k \in 1..Len(misspell_map) : ~SingleWordKey(misspell_map[k][1])) =>
        raised = "" /\ result = text

\* C10 (as stated): for every text and every map, the second application of
\* correct_common_misspells returns what the first returned.
C10_Idempotent ==
    (fn = "correct_common_misspells" /\ pc \in {"twice", "raised_again"}) =>
        raised = "" /\ result2 = result

\* the value v holds the key k as a whole word, in any casing
HoldsWord(v, k) == \E p \in 0..Len(v) : MatchAt(v, p, k, TRUE) /\ WordBoundary(v, p) /\ WordBoundary(v, p + Len(k))

\* every key is one lower-case word and no replacement holds a key as a word
PlainMap(map) ==
    /\ \A k \in 1..Len(map) : SingleWordKey(map[k][1]) /\ map[k][1] = Lower(map[k][1])
    /\ \A k, m \in 1..Len(map) : ~HoldsWord(map[k][2], map[m][1])

\* C10 (amended): for every text and every map whose keys are single
\* lower-case words and none of whose replacements holds a key as a whole
\* word, when the first application of correct_common_misspells returns, the
\* second returns the same text.
C10_IdempotentOnPlainMaps ==
    (/\ fn = "correct_common_misspells"
     /\ pc \in {"twice", "raised_again"}
     /\ PlainMap(misspell_map)) =>
        raised = "" /\ result2 = result

\* C10 witness: a text holding "Teh" was corrected, and corrected again
C10_Witness ==
    /\ fn = "correct_common_misspells" /\ pc = "twice"
    /\ misspell_map = Map_Teh
    /\ result # text
    /\ result2 = result

-----------------------------------------------------------------------------
(* normalize_indian_units and normalize_currency, rules.py 146-213         *)

W_lakh == <<"l","a","k","h">>

W_crore == <<"c","r","o","r","e">>

W_thousand == <<"t","h","o","u","s","a","n","d">>

W_rupees == <<"r","u","p","e","e","s">>

W_rs == <<"r","s">>

\* the dict INDIAN_UNITS as its set of <<key, value>> items
INDIAN_UNITS == { <<W_lakh, 100000>>, <<W_crore, 10000000>> }

\* the factor of line 179
Thousand == 1000

\* the character classes [\d,.], [0-9,] and \s
NumClass == Digits \cup {",", "."}

GroupClass == Digits \cup {","}

SpaceClass == {" ", "\t"}

\* the last position of the longest run of characters of class C that starts
\* at position p of s_ (p - 1 when s_[p] is not in C)
SpanEnd(s_, p, C) ==
    CHOOSE e \in (p - 1)..Len(s_) :
        /\ \A k \in p..e : s_[k] \in C
        /\ e = Len(s_) \/ s_[e + 1] \notin C

RECURSIVE SubWord(_, _, _, _)
\* re.sub(r'\bWORD\b', rep, s_, flags=re.IGNORECASE) from offset p on
SubWord(s_, p, word, rep) ==
    IF p >= Len(s_) THEN <<>>
    ELSE IF WordBoundary(s_, p) /\ MatchAt(s_, p, word, TRUE)
            /\ WordBoundary(s_, p + Len(word))
         THEN rep \o SubWord(s_, p + Len(word), word, rep)
         ELSE <<s_[p + 1]>> \o SubWord(s_, p + 1, word, rep)

\* lines 169-170
NiuWords(s_) ==
    LET o == SubWord(s_, 0, <<"o","n","e">>, <<"1">>)
    IN  SubWord(o, 0, <<"t","w","o">>, <<"2">>)

\* whether float(g) succeeds, for g a match of \d[\d,.]*: it holds no comma
\* and at most one dot
FloatParses(g) ==
    /\ \A k \in 1..Len(g) : g[k] # ","
    /\ Cardinality({k \in 1..Len(g) : g[k] = "."}) <= 1

RECURSIVE Log10(_)
\* the number of zeros of the power of ten n
Log10(n) == IF n <= 1 THEN 0 ELSE 1 + Log10(n \div 10)

RECURSIVE StripZeros(_)
StripZeros(d) == IF Len(d) > 1 /\ d[1] = "0" THEN StripZeros(Tail(d)) ELSE d

\* str(int(float(g) * unit)) for a parsable g and unit a power of ten: the
\* decimal point moves Log10(unit) places to the right and the digits left
\* behind it are dropped.  (A double holds the numerals of the model, which
\* have no fraction or the fraction .5, exactly, so that the product is too.)
Scaled(g, unit) ==
    LET dot == IF \E k \in 1..Len(g) : g[k] = "."
               THEN CHOOSE k \in 1..Len(g) : g[k] = "."
               ELSE Len(g) + 1
        whole == SubSeq(g, 1, dot - 1)
        frac == SubSeq(g, dot + 1, Len(g))
        z == Log10(unit)
        moved == [k \in 1..z |-> IF k <= Len(frac) THEN frac[k] ELSE "0"]
    IN  StripZeros(whole \o moved)

\* the match of (\d[\d,.]*)\s+(WORD)\b, re.IGNORECASE, at offset p of s_, for
\* WORD one of words: ok, and then group 1, group 2 and the offset it ends at
UnitMatch(s_, p, words) ==
    IF p + 1 <= Len(s_) /\ IsDigitChar(s_[p + 1])
    THEN LET e == SpanEnd(s_, p + 1, NumClass)
             w == SpanEnd(s_, e + 1, SpaceClass)
             hits == {u \in words : MatchAt(s_, w, u, TRUE) /\ WordBoundary(s_, w + Len(u))}
         IN  IF w > e /\ hits # {}
             THEN LET u == CHOOSE x \in hits : TRUE
                  IN  [ok |-> TRUE, g1 |-> SubSeq(s_, p + 1, e),
                       g2 |-> SubSeq(s_, w + 1, w + Len(u)), end |-> w + Len(u)]
             ELSE [ok |-> FALSE, g1 |-> <<>>, g2 |-> <<>>, end |-> p]
    ELSE [ok |-> FALSE, g1 |-> <<>>, g2 |-> <<>>, end |-> p]

\* unit_replacer(m), lines 159-166, for the match with groups g1 and g2 and
\* text g0
unit_replacer(g0, g1, g2) ==
    IF FloatParses(g1)
    THEN LET unit == Lower(g2)
             total == (CHOOSE kv \in INDIAN_UNITS : kv[1] = unit)[2]
         IN  Scaled(g1, total)
    ELSE g0

RECURSIVE NiuUnitsFrom(_, _)
\* pattern.sub(unit_replacer, s_) from offset p on (lines 174-175)
NiuUnitsFrom(s_, p) ==
    IF p >= Len(s_) THEN <<>>
    ELSE LET m == UnitMatch(s_, p, {W_lakh, W_crore})
         IN  IF m.ok
             THEN unit_replacer(SubSeq(s_, p + 1, m.end), m.g1, m.g2)
                  \o NiuUnitsFrom(s_, m.end)
             ELSE <<s_[p + 1]>> \o NiuUnitsFrom(s_, p + 1)

NiuUnits(s_) == NiuUnitsFrom(s_, 0)

RECURSIVE NiuThousandFrom(_, _)
\* re.sub(r'(\d[\d,.]*)\s+thousand\b', lambda m: str(int(float(m.group(1))
\* * 1000)), s_, flags=re.IGNORECASE) from offset p on (line 179): float()
\* raises ValueError out of the lambda, and so out of re.sub
NiuThousandFrom(s_, p) ==
    IF p >= Len(s_) THEN Returned(<<>>)
    ELSE LET m == UnitMatch(s_, p, {W_thousand})
         IN  IF m.ok
             THEN IF FloatParses(m.g1)
                  THEN Emit(Scaled(m.g1, Thousand), NiuThousandFrom(s_, m.end))
                  ELSE Raised("ValueError")
             ELSE Emit(<<s_[p + 1]>>, NiuThousandFrom(s_, p + 1))

NiuThousand(s_) == NiuThousandFrom(s_, 0)

normalize_indian_units(s_) ==
    LET w == NiuWords(s_)
        u == NiuUnits(w)
    IN  NiuThousand(u)

RECURSIVE NcSymbolFrom(_, _)
\* re.sub(r'\b(rupees|rs)\b\s*', RUPEE SIGN, s_, flags=re.IGNORECASE) from
\* offset p on (line 201)
NcSymbolFrom(s_, p) ==
    IF p >= Len(s_) THEN <<>>
    ELSE LET hit(wd) == /\ WordBoundary(s_, p)
                        /\ MatchAt(s_, p, wd, TRUE)
                        /\ WordBoundary(s_, p + Len(wd))
             n == IF hit(W_rupees) THEN Len(W_rupees)
                  ELSE IF hit(W_rs) THEN Len(W_rs) ELSE 0
         IN  IF n > 0
             THEN <<Rupee>> \o NcSymbolFrom(s_, SpanEnd(s_, p + n + 1, SpaceClass))
             ELSE <<s_[p + 1]>> \o NcSymbolFrom(s_, p + 1)

NcSymbol(s_) == NcSymbolFrom(s_, 0)

\* raw_num = m.group(2).replace(',', '') (line 207)
NoCommas(g) == SelectSeq(g, LAMBDA c : c # ",")

\* repl(m), lines 204-210, for the match with group 2 g2 and text g0
repl(g0, g2) ==
    LET raw_num == NoCommas(g2)
    IN  IF IsDigitStr(raw_num) THEN <<Rupee>> \o indian_group(raw_num) ELSE g0

RECURSIVE NcGroupFrom(_, _)
\* re.sub(r'(RUPEE SIGN)\s*([0-9,]+)\b', repl, s_) from offset p on (line
\* 212): group 2 is the longest run of [0-9,] that ends at a \b
NcGroupFrom(s_, p) ==
    IF p >= Len(s_) THEN <<>>
    ELSE LET w == SpanEnd(s_, p + 2, SpaceClass)
             e == SpanEnd(s_, w + 1, GroupClass)
             ends == {x \in (w + 1)..e : WordBoundary(s_, x)}
         IN  IF s_[p + 1] = Rupee /\ ends # {}
             THEN LET x == CHOOSE y \in ends : \A z \in ends : z <= y
                  IN  repl(SubSeq(s_, p + 1, x), SubSeq(s_, w + 1, x))
                      \o NcGroupFrom(s_, x)
             ELSE <<s_[p + 1]>> \o NcGroupFrom(s_, p + 1)

NcGroup(s_) == NcGroupFrom(s_, 0)

normalize_currency(s_) ==
    LET r == normalize_indian_units(s_)
        y == NcSymbol(r.val)
    IN  IF r.raised # "" THEN r ELSE Returned(NcGroup(y))

\* bound: the most tokens of a text given to the two functions
MaxCurTokens == 3

\* numerals float() parses and numerals it does not, the number words, the
\* units, a currency word and another word
CurVocab ==
    { <<"2">>, <<"2",".","5">>, <<"1",",","5">>, <<"1",".","2",".","3">>,
      <<"o","n","e">>, W_lakh, <<"C","r","o","r","e">>, W_thousand, W_rupees,
      <<"x">> }

T_Rupees200000 == <<"r","u","p","e","e","s"," ","2","0","0","0","0","0">>

CurTexts ==
    {Join(<<" ">>, t) : t \in TokenLists(CurVocab, MaxCurTokens)}
    \cup {T_Rupees200000, <<"R","s","2",",","0","0",","," ","t","w","o"," "," ","l","a","k","h",".">>}

InitCurrency ==
    /\ fn \in {"normalize_indian_units", "normalize_currency"}
    /\ text \in CurTexts
    /\ pc = "words"
    /\ NoSeq /\ NoMap /\ NoLexicon
    /\ IdleLocals

\* lines 169-170
NiuWordsStep ==
    /\ fn \in {"normalize_indian_units", "normalize_currency"} /\ pc = "words"
    /\ str' = NiuWords(text)
    /\ pc' = "units"
    /\ UNCHANGED <<argVars, gcVars, tokens, i, j, out, best, result, result2, raised>>

\* lines 174-175
NiuUnitsStep ==
    /\ fn \in {"normalize_indian_units", "normalize_currency"} /\ pc = "units"
    /\ str' = NiuUnits(str)
    /\ pc' = "thousand"
    /\ UNCHANGED <<argVars, gcVars, tokens, i, j, out, best, result, result2, raised>>

\* line 179, when every numeral in front of "thousand" parses
NiuThousandStep ==
    /\ fn \in {"normalize_indian_units", "normalize_currency"} /\ pc = "thousand"
    /\ LET r == NiuThousand(str)
       IN  /\ r.raised = ""
           /\ str' = r.val
    /\ pc' = IF fn = "normalize_indian_units" THEN "return" ELSE "symbol"
    /\ UNCHANGED <<argVars, gcVars, tokens, i, j, out, best, result, result2, raised>>

\* line 179, when float() raises: the exception leaves normalize_indian_units
\* and, through line 198, normalize_currency
NiuThousandRaises ==
    /\ fn \in {"normalize_indian_units", "normalize_currency"} /\ pc = "thousand"
    /\ LET r == NiuThousand(str)
       IN  /\ r.raised # ""
           /\ raised' = r.raised
    /\ pc' = "raised"
    /\ UNCHANGED <<argVars, gcVars, tokens, i, j, out, best, str, result, result2>>

\* line 201
NcSymbolStep ==
    /\ fn = "normalize_currency" /\ pc = "symbol"
    /\ str' = NcSymbol(str)
    /\ pc' = "group"
    /\ UNCHANGED <<argVars, gcVars, tokens, i, j, out, best, result, result2, raised>>

\* line 212
NcGroupStep ==
    /\ fn = "normalize_currency" /\ pc = "group"
    /\ str' = NcGroup(str)
    /\ pc' = "return"
    /\ UNCHANGED <<argVars, gcVars, tokens, i, j, out, best, result, result2, raised>>

\* lines 180 and 213
CurReturn ==
    /\ fn \in {"normalize_indian_units", "normalize_currency"} /\ pc = "return"
    /\ result' = str
    /\ pc' = "done"
    /\ UNCHANGED <<argVars, gcVars, tokens, i, j, out, best, str, result2, raised>>

NextCurrency ==
    \/ NiuWordsStep \/ NiuUnitsStep \/ NiuThousandStep \/ NiuThousandRaises
    \/ NcSymbolStep \/ NcGroupStep \/ CurReturn

SpecCurrency == InitCurrency /\ [][NextCurrency]_vars

\* the text is one numeral that float() does not parse, whitespace and a unit
UnparsableAmount(t) ==
    LET m == UnitMatch(t, 0, {W_lakh, W_crore, W_thousand})
    IN  m.ok /\ m.end = Len(t) /\ ~FloatParses(m.g1)

\* C4: normalize_indian_units and normalize_currency never raise: a numeral
\* in front of "lakh", "crore" or "thousand" that does not parse as a number
\* is left untouched in the output.
C4_NeverRaises ==
    (fn \in {"normalize_indian_units", "normalize_currency"}) =>
        /\ raised = ""
        /\ pc # "raised"
        /\ (pc = "done" /\ UnparsableAmount(text)) => result = text

-----------------------------------------------------------------------------
(* normalize_email_tokens, rules.py 15-35 and 80-87                        *)

\* EMAIL_TOKEN_PATTERNS: <<word, replacement>>
EMAIL_TOKEN_PATTERNS ==
    << << <<"d","o","t">>, <<".">> >>,
       << <<"u","n","d","e","r","s","c","o","r","e">>, <<"_">> >> >>

\* the character class [a-zA-Z0-9.-]
EmailClass ==
    {LowerLetters[k] : k \in 1..26} \cup {UpperLetters[k] : k \in 1..26}
    \cup Digits \cup {".", "-"}

\* the first four of EMAIL_CLEANUP_PATTERNS, each (HEAD[a-zA-Z0-9.-]+)(T1|T2|..)\b
\* as its HEAD, and for each alternative Tk, in order, what the replacement
\* puts in its place
SurnamePattern ==
    [head |-> <<>>,
     tails |-> << << <<"m","e","h","t","a">>, <<".","m","e","h","t","a">> >>,
                  << <<"s","h","a","r","m","a">>, <<".","s","h","a","r","m","a">> >>,
                  << <<"p","a","t","e","l">>, <<".","p","a","t","e","l">> >>,
                  << <<"g","u","p","t","a">>, <<".","g","u","p","t","a">> >>,
                  << <<"s","i","n","g","h">>, <<".","s","i","n","g","h">> >>,
                  << <<"k","u","m","a","r">>, <<".","k","u","m","a","r">> >>,
                  << <<"v","e","r","m","a">>, <<".","v","e","r","m","a">> >> >>]

AcinPattern ==
    [head |-> <<"@">>,
     tails |-> << << <<"a","c","i","n">>, <<".","a","c",".","i","n">> >> >>]

CoinPattern ==
    [head |-> <<"@">>,
     tails |-> << << <<"c","o","i","n">>, <<".","c","o",".","i","n">> >> >>]

TldPattern ==
    [head |-> <<"@">>,
     tails |-> << << <<"c","o","m">>, <<".","c","o","m">> >>,
                  << <<"i","n">>, <<".","i","n">> >>,
                  << <<"o","r","g">>, <<".","o","r","g">> >>,
                  << <<"n","e","t">>, <<".","n","e","t">> >>,
                  << <<"e","d","u">>, <<".","e","d","u">> >> >>]

RECURSIVE CleanupSub(_, _, _)
\* re.sub of one of these patterns on s_ from offset p on.  Group 1 is
\* greedy: of the places in the run of [a-zA-Z0-9.-] where an alternative
\* followed by \b starts, the match takes the last.
CleanupSub(s_, p, pat) ==
    IF p >= Len(s_) THEN <<>>
    ELSE LET b == p + Len(pat.head)
             e == SpanEnd(s_, b + 1, EmailClass)
             at(q) == {t \in 1..Len(pat.tails) :
                          /\ MatchAt(s_, q, pat.tails[t][1], FALSE)
                          /\ WordBoundary(s_, q + Len(pat.tails[t][1]))}
             qs == {q \in (b + 1)..e : at(q) # {}}
         IN  IF MatchAt(s_, p, pat.head, FALSE) /\ qs # {}
             THEN LET q == CHOOSE x \in qs : \A y \in qs : y <= x
                      t == CHOOSE x \in at(q) : \A y \in at(q) : x <= y
                  IN  SubSeq(s_, p + 1, q) \o pat.tails[t][2]
                      \o CleanupSub(s_, q + Len(pat.tails[t][1]), pat)
             ELSE <<s_[p + 1]>> \o CleanupSub(s_, p + 1, pat)

RECURSIVE TightenSub(_, _)
\* re.sub(r'\s*([@\.])\s*', r'\1', s_) from offset p on (line 34)
TightenSub(s_, p) ==
    IF p >= Len(s_) THEN <<>>
    ELSE LET w == SpanEnd(s_, p + 1, SpaceClass)
         IN  IF w < Len(s_) /\ s_[w + 1] \in {"@", "."}
             THEN <<s_[w + 1]>> \o TightenSub(s_, SpanEnd(s_, w + 2, SpaceClass))
             ELSE <<s_[p + 1]>> \o TightenSub(s_, p + 1)

normalize_email_tokens(s_) ==
    LET c == collapse_spelled_letters(s_)
        t1 == SubWord(c, 0, EMAIL_TOKEN_PATTERNS[1][1], EMAIL_TOKEN_PATTERNS[1][2])
        t2 == SubWord(t1, 0, EMAIL_TOKEN_PATTERNS[2][1], EMAIL_TOKEN_PATTERNS[2][2])
        c1 == CleanupSub(t2, 0, SurnamePattern)
        c2 == CleanupSub(c1, 0, AcinPattern)
        c3 == CleanupSub(c2, 0, CoinPattern)
        c4 == CleanupSub(c3, 0, TldPattern)
    IN  TightenSub(c4, 0)

-----------------------------------------------------------------------------
(* correct_names_with_lexicon, rules.py 216-235                            *)

\* the default of the parameter threshold (line 216)
Threshold == 90

Max(a, b) == IF a >= b THEN a ELSE b

RECURSIVE Lcs(_, _, _, _)
\* the length of the longest common subsequence of a[x..] and b[y..]
Lcs(a, b, x, y) ==
    IF x > Len(a) \/ y > Len(b) THEN 0
    ELSE IF a[x] = b[y] THEN 1 + Lcs(a, b, x + 1, y + 1)
    ELSE Max(Lcs(a, b, x + 1, y), Lcs(a, b, x, y + 1))

\* rapidfuzz.utils.default_process: lower case, every character that is not
\* alphanumeric replaced by a space, and the result stripped
DefaultProcess(x) ==
    Strip([k \in 1..Len(x) |->
              IF IsAlphaChar(x[k]) \/ IsDigitChar(x[k]) THEN ToLower(x[k]) ELSE " "])

\* whether fuzz.ratio(a, b) >= c: the ratio is the normalized Indel
\* similarity, 100 * 2 * LCS / (len(a) + len(b)), and 100 for two empty strs
RatioAtLeast(a, b, c) ==
    IF Len(a) + Len(b) = 0 THEN 100 >= c
    ELSE 200 * Lcs(a, b, 1, 1) >= c * (Len(a) + Len(b))

\* fuzz.ratio(a, b) > fuzz.ratio(a, d)
RatioAbove(a, b, d) ==
    LET rb == IF Len(a) + Len(b) = 0 THEN [n |-> 1, d |-> 1]
              ELSE [n |-> 2 * Lcs(a, b, 1, 1), d |-> Len(a) + Len(b)]
        rd == IF Len(a) + Len(d) = 0 THEN [n |-> 1, d |-> 1]
              ELSE [n |-> 2 * Lcs(a, d, 1, 1), d |-> Len(a) + Len(d)]
    IN  rb.n * rd.d > rd.n * rb.d

\* process.extractOne(t, lex, scorer=fuzz.ratio): the index of the choice it
\* returns (the first of those with the highest ratio), 0 for None; dp says
\* whether this rapidfuzz preprocesses both strs with default_process
ExtractOne(t, lex, dp) ==
    LET pre(x) == IF dp THEN DefaultProcess(x) ELSE x
    IN  IF lex = <<>> THEN 0
        ELSE CHOOSE k \in 1..Len(lex) :
                /\ \A m \in 1..Len(lex) : ~RatioAbove(pre(t), pre(lex[m]), pre(lex[k]))
                /\ \A m \in 1..(k - 1) : RatioAbove(pre(t), pre(lex[k]), pre(lex[m]))

\* lines 223-234 for one token t
CorrectName(t, lex, dp) ==
    IF ~IsAlphaStr(t) \/ Len(t) <= 2 THEN t
    ELSE LET k == ExtractOne(t, lex, dp)
             pre(x) == IF dp THEN DefaultProcess(x) ELSE x
         IN  IF k # 0 /\ RatioAtLeast(pre(t), pre(lex[k]), Threshold)
             THEN lex[k]
             ELSE t

correct_names_with_lexicon(s_, lex, dp) ==
    LET toks == Split(s_)
    IN  Join(<<" ">>, [k \in 1..Len(toks) |-> CorrectName(toks[k], lex, dp)])

-----------------------------------------------------------------------------
(* generate_candidates, rules.py 238-282                                   *)

\* the cap of line 282
MaxCands == 5

Min(a, b) == IF a <= b THEN a ELSE b

\* list(cands)[:5] (line 282): a set is iterated in no particular order, so
\* any MaxCands of its members (all of them when it has no more) may be the
\* ones returned; the returned list is modelled by the set of its members
TruncationsToFour(cands_) ==
    {S \in SUBSET cands_ : Cardinality(S) = Min(MaxCands - 1, Cardinality(cands_))}

Truncations(cands_) ==
    {S \in SUBSET cands_ : Cardinality(S) = Min(MaxCands, Cardinality(cands_))}

\* the functions that run generate_candidates: itself, and process_one,
\* which calls it at postprocess_pipeline.py 24
GcCallers == {"generate_candidates", "process_one"}

\* bound: the most tokens of a text given to generate_candidates
MaxGcTokens == 2

W_mehta == <<"m","e","h","t","a">>

GcVocab ==
    { <<"T","e","h">>, <<"a">>, <<"o","n","e">>, <<"m","e","h","t","a","a">>,
      <<"x","@","y","c","o","m">>, <<"1",",","5">>, W_thousand }

\* a text every rule changes: a misspelling, spelled letters, spoken digits
\* and a name one letter off
T_EveryRule ==
    <<"t","e","h"," ","a"," ","b"," ","o","n","e"," ","t","w","o"," ",
      "m","e","h","t","a","a">>

GcTexts ==
    {Join(<<" ">>, t) : t \in TokenLists(GcVocab, MaxGcTokens)}
    \cup {T_EveryRule, T_Rupees200000}

InitCandidates ==
    /\ fn = "generate_candidates"
    /\ text \in GcTexts
    /\ misspell_map \in {Map_Teh, Map_Empty}
    /\ names_lex \in {<<>>, <<W_mehta>>}
    /\ fuzz_default_process \in BOOLEAN
    /\ pc = "start"
    /\ NoSeq
    /\ IdleLocals

\* lines 251-252
GcStart ==
    /\ fn \in GcCallers /\ pc = "start"
    /\ cands' = {text}
    /\ pc' = "base"
    /\ UNCHANGED <<argVars, tokens, i, j, out, best, str, result, result2, raised,
                   t_base, t_full, t_no_names, t_no_nums, t_email_name>>

\* lines 255-256
GcBaseStep ==
    /\ fn \in GcCallers /\ pc = "base"
    /\ LET r == correct_common_misspells(text, misspell_map)
       IN  /\ r.raised = ""
           /\ t_base' = r.val
           /\ cands' = cands \cup {r.val}
    /\ pc' = "full_email"
    /\ UNCHANGED <<argVars, tokens, i, j, out, best, str, result, result2, raised,
                   t_full, t_no_names, t_no_nums, t_email_name>>

\* line 259
GcFullEmail ==
    /\ fn \in GcCallers /\ pc = "full_email"
    /\ t_full' = normalize_email_tokens(t_base)
    /\ pc' = "full_numbers"
    /\ UNCHANGED <<argVars, tokens, i, j, out, best, str, result, result2, raised,
                   t_base, t_no_names, t_no_nums, t_email_name, cands>>

\* line 260
GcFullNumbers ==
    /\ fn \in GcCallers /\ pc = "full_numbers"
    /\ t_full' = normalize_numbers_spoken(t_full)
    /\ pc' = "full_currency"
    /\ UNCHANGED <<argVars, tokens, i, j, out, best, str, result, result2, raised,
                   t_base, t_no_names, t_no_nums, t_email_name, cands>>

\* line 261, when normalize_currency returns
GcFullCurrency ==
    /\ fn \in GcCallers /\ pc = "full_currency"
    /\ LET r == normalize_currency(t_full)
       IN  /\ r.raised = ""
           /\ t_full' = r.val
    /\ pc' = "full_names"
    /\ UNCHANGED <<argVars, tokens, i, j, out, best, str, result, result2, raised,
                   t_base, t_no_names, t_no_nums, t_email_name, cands>>

\* lines 262-263
GcFullNames ==
    /\ fn \in GcCallers /\ pc = "full_names"
    /\ t_full' = correct_names_with_lexicon(t_full, names_lex, fuzz_default_process)
    /\ cands' = cands \cup {t_full'}
    /\ pc' = "no_names_email"
    /\ UNCHANGED <<argVars, tokens, i, j, out, best, str, result, result2, raised,
                   t_base, t_no_names, t_no_nums, t_email_name>>

\* line 266
GcNoNamesEmail ==
    /\ fn \in GcCallers /\ pc = "no_names_email"
    /\ t_no_names' = normalize_email_tokens(t_base)
    /\ pc' = "no_names_numbers"
    /\ UNCHANGED <<argVars, tokens, i, j, out, best, str, result, result2, raised,
                   t_base, t_full, t_no_nums, t_email_name, cands>>

\* line 267
GcNoNamesNumbers ==
    /\ fn \in GcCallers /\ pc = "no_names_numbers"
    /\ t_no_names' = normalize_numbers_spoken(t_no_names)
    /\ pc' = "no_names_currency"
    /\ UNCHANGED <<argVars, tokens, i, j, out, best, str, result, result2, raised,
                   t_base, t_full, t_no_nums, t_email_name, cands>>

\* lines 268-269, when normalize_currency returns
GcNoNamesCurrency ==
    /\ fn \in GcCallers /\ pc = "no_names_currency"
    /\ LET r == normalize_currency(t_no_names)
       IN  /\ r.raised = ""
           /\ t_no_names' = r.val
           /\ cands' = cands \cup {r.val}
    /\ pc' = "no_nums_email"
    /\ UNCHANGED <<argVars, tokens, i, j, out, best, str, result, result2, raised,
                   t_base, t_full, t_no_nums, t_email_name>>

\* the call of line 255, 261 or 268 raises, and the exception leaves
\* generate_candidates
GcRaises ==
    /\ fn \in GcCallers
    /\ pc \in {"base", "full_currency", "no_names_currency"}
    /\ LET r == IF pc = "base" THEN correct_common_misspells(text, misspell_map)
                ELSE IF pc = "full_currency" THEN normalize_currency(t_full)
                ELSE normalize_currency(t_no_names)
       IN  /\ r.raised # ""
           /\ raised' = r.raised
    /\ pc' = "raised"
    /\ UNCHANGED <<argVars, gcVars, tokens, i, j, out, best, str, result, result2>>

\* line 272
GcNoNumsEmail ==
    /\ fn \in GcCallers /\ pc = "no_nums_email"
    /\ t_no_nums' = normalize_email_tokens(t_base)
    /\ pc' = "no_nums_names"
    /\ UNCHANGED <<argVars, tokens, i, j, out, best, str, result, result2, raised,
                   t_base, t_full, t_no_names, t_email_name, cands>>

\* lines 273-274
GcNoNumsNames ==
    /\ fn \in GcCallers /\ pc = "no_nums_names"
    /\ t_no_nums' = correct_names_with_lexicon(t_no_nums, names_lex, fuzz_default_process)
    /\ cands' = cands \cup {t_no_nums'}
    /\ pc' = "email_name_email"
    /\ UNCHANGED <<argVars, tokens, i, j, out, best, str, result, result2, raised,
                   t_base, t_full, t_no_names, t_email_name>>

\* line 277
GcEmailNameEmail ==
    /\ fn \in GcCallers /\ pc = "email_name_email"
    /\ t_email_name' = normalize_email_tokens(t_base)
    /\ pc' = "email_name_names"
    /\ UNCHANGED <<argVars, tokens, i, j, out, best, str, result, result2, raised,
                   t_base, t_full, t_no_names, t_no_nums, cands>>

\* lines 278-279
GcEmailNameNames ==
    /\ fn \in GcCallers /\ pc = "email_name_names"
    /\ t_email_name' =
           correct_names_with_lexicon(t_email_name, names_lex, fuzz_default_process)
    /\ cands' = cands \cup {t_email_name'}
    /\ pc' = "return"
    /\ UNCHANGED <<argVars, tokens, i, j, out, best, str, result, result2, raised,
                   t_base, t_full, t_no_names, t_no_nums>>

\* line 282
GcReturn ==
    /\ fn \in GcCallers /\ pc = "return"
    /\ result' \in Truncations(cands)
    /\ pc' = IF fn = "process_one" THEN "choose" ELSE "done"
    /\ UNCHANGED <<argVars, gcVars, tokens, i, j, out, best, str, result2, raised>>

GcSteps ==
    \/ GcStart \/ GcBaseStep
    \/ GcFullEmail \/ GcFullNumbers \/ GcFullCurrency \/ GcFullNames
    \/ GcNoNamesEmail \/ GcNoNamesNumbers \/ GcNoNamesCurrency
    \/ GcRaises
    \/ GcNoNumsEmail \/ GcNoNumsNames
    \/ GcEmailNameEmail \/ GcEmailNameNames
    \/ GcReturn

NextCandidates == GcSteps

SpecCandidates == InitCandidates /\ [][NextCandidates]_vars

\* C1: whenever generate_candidates returns, the returned list holds the
\* unmodified input text and has at most 5 members, whichever members of the
\* set the truncation keeps.
C1_OriginalKept ==
    (fn = "generate_candidates" /\ pc = "done") =>
        /\ text \in result
        /\ Cardinality(result) <= 5
        /\ result \subseteq cands

\* C1 witness: generate_candidates has returned 5 different strings, the
\* input text among them
C1_Witness ==
    /\ fn = "generate_candidates" /\ pc = "done"
    /\ Cardinality({text, t_base, t_full, t_no_names, t_no_nums}) = 5
    /\ Cardinality(result) = 5
    /\ text \in result

-----------------------------------------------------------------------------
(* PostProcessor.process_one, postprocess_pipeline.py 21-64                *)

\* c in t
Contains(t, c) == \E k \in 1..Len(t) : t[k] = c

RECURSIVE StripChars(_, _)
\* str.strip(chars)
StripChars(t, C) ==
    IF t # <<>> /\ t[1] \in C THEN StripChars(Tail(t), C)
    ELSE IF t # <<>> /\ t[Len(t)] \in C THEN StripChars(SubSeq(t, 1, Len(t) - 1), C)
    ELSE t

\* str.capitalize()
Capitalize(t) == IF t = <<>> THEN <<>> ELSE <<ToUpper(t[1])>> \o Lower(Tail(t))

\* names_lex_lower_set (line 13)
names_lex_lower_set(lex) == {Lower(lex[k]) : k \in 1..Len(lex)}

\* the characters of line 38
EdgePunctuation == {".", ",", "?", "!"}

\* the name test of line 38
IsNameToken(token, names) == StripChars(Lower(token), EdgePunctuation) \in names

\* lines 33-42 with the lower-casing of line 38 left out
PoTokenOfNoLower(token, names) ==
    IF Contains(token, "@") THEN token
    ELSE IF StripChars(token, EdgePunctuation) \in names THEN Capitalize(token)
    ELSE token

\* lines 33-42: what the loop appends for one token
PoTokenOf(token, names) ==
    IF Contains(token, "@") THEN token
    ELSE IF IsNameToken(token, names) THEN Capitalize(token)
    ELSE token

\* the tuple of line 60
QuestionWords ==
    { <<"c","a","n">>, <<"s","h","a","l","l">>, <<"w","i","l","l">>,
      <<"c","o","u","l","d">>, <<"w","o","u","l","d">>, <<"i","s">>,
      <<"a","r","e">>, <<"d","o">>, <<"d","o","e","s">>, <<"d","i","d">>,
      <<"s","h","o","u","l","d">>, <<"w","h","a","t">>, <<"w","h","e","r","e">>,
      <<"w","h","e","n">>, <<"w","h","y">>, <<"w","h","o">>, <<"h","o","w">> }

\* the endings of line 58
Endings == {"?", ".", ","}

\* str.endswith(('?', '.', ','))
EndsWith(t, C) == t # <<>> /\ t[Len(t)] \in C

\* lines 57-63 with the comma left out of the endings of line 58
PoPunctOfNoComma(best_) ==
    LET lower == Lower(best_)
        first_word == IF Split(lower) # <<>> THEN Split(lower)[1] ELSE <<>>
    IN  IF ~EndsWith(lower, {"?", "."})
        THEN IF first_word \in QuestionWords
             THEN RStrip(best_) \o <<"?">>
             ELSE RStrip(best_) \o <<".">>
        ELSE best_

\* lines 57-63: best with its final punctuation
PoPunctOf(best_) ==
    LET lower == Lower(best_)
        first_word == IF Split(lower) # <<>> THEN Split(lower)[1] ELSE <<>>
    IN  IF ~EndsWith(lower, Endings)
        THEN IF first_word \in QuestionWords
             THEN RStrip(best_) \o <<"?">>
             ELSE RStrip(best_) \o <<".">>
        ELSE best_

\* ranker.choose_best(cands) (line 25): the strings it may return.  The
\* ranker is outside these sources; it returns a member of the list it is
\* given.
choose_best(cands_) == cands_

\* bound: the most tokens of a text given to process_one
MaxPoTokens == 2

W_Alok == <<"A","l","o","k">>

\* a question word, an email, a name in two casings (one with punctuation),
\* and a word ending in a comma
PoVocab ==
    { <<"i","s">>, <<"a","@","B",".","c">>, <<"a","l","o","k">>,
      <<"A","L","O","K","!">>, <<"o","k",",">> }

PoTexts ==
    {Join(<<" ">>, t) : t \in TokenLists(PoVocab, MaxPoTokens)} \cup {<<" ">>}

InitProcessOne ==
    /\ fn = "process_one"
    /\ text \in PoTexts
    /\ misspell_map \in {Map_Teh, Map_Empty}
    /\ names_lex = <<W_Alok>>
    /\ fuzz_default_process \in BOOLEAN
    /\ pc = "start"
    /\ NoSeq
    /\ IdleLocals

\* line 25
PoChoose ==
    /\ fn = "process_one" /\ pc = "choose"
    /\ best' \in choose_best(result)
    /\ pc' = "split"
    /\ UNCHANGED <<argVars, gcVars, tokens, i, j, out, str, result, result2, raised>>

\* lines 29-30: processed_tokens is out
PoSplit ==
    /\ fn = "process_one" /\ pc = "split"
    /\ tokens' = Split(best)
    /\ out' = <<>>
    /\ i' = 0
    /\ pc' = "tokens"
    /\ UNCHANGED <<argVars, gcVars, j, best, str, result, result2, raised>>

\* lines 30-42: one iteration
PoToken ==
    /\ fn = "process_one" /\ pc = "tokens"
    /\ i < Len(tokens)
    /\ out' = Append(out, PoTokenOf(tokens[i + 1], names_lex_lower_set(names_lex)))
    /\ i' = i + 1
    /\ UNCHANGED <<argVars, gcVars, pc, tokens, j, best, str, result, result2, raised>>

\* line 44
PoJoin ==
    /\ fn = "process_one" /\ pc = "tokens"
    /\ i = Len(tokens)
    /\ best' = Join(<<" ">>, out)
    /\ pc' = "strip"
    /\ UNCHANGED <<argVars, gcVars, tokens, i, j, out, str, result, result2, raised>>

\* lines 47-49
PoStrip ==
    /\ fn = "process_one" /\ pc = "strip"
    /\ best' = Strip(best)
    /\ IF best' = <<>>
       THEN result' = <<".">> /\ pc' = "done"
       ELSE result' = result /\ pc' = "capitalize"
    /\ UNCHANGED <<argVars, gcVars, tokens, i, j, out, str, result2, raised>>

\* line 52
PoCapitalizeFirst ==
    /\ fn = "process_one" /\ pc = "capitalize"
    /\ best' = <<ToUpper(best[1])>> \o Tail(best)
    /\ pc' = "punctuate"
    /\ UNCHANGED <<argVars, gcVars, tokens, i, j, out, str, result, result2, raised>>

\* lines 57-64
PoPunctuate ==
    /\ fn = "process_one" /\ pc = "punctuate"
    /\ best' = PoPunctOf(best)
    /\ result' = best'
    /\ pc' = "done"
    /\ UNCHANGED <<argVars, gcVars, tokens, i, j, out, str, result2, raised>>

NextProcessOne ==
    \/ GcSteps
    \/ PoChoose \/ PoSplit \/ PoToken \/ PoJoin \/ PoStrip
    \/ PoCapitalizeFirst \/ PoPunctuate

SpecProcessOne == InitProcessOne /\ [][NextProcessOne]_vars

Spec == SpecProcessOne

\* process_one has returned a string made of the tokens of the chosen one
PoFormatted == fn = "process_one" /\ pc = "done" /\ tokens # <<>>

\* C3 as stated: in the final output of process_one every token holding "@"
\* is identical to the token of the chosen string, characters and casing,
\* and every token whose stripped, lower-cased form is a name is capitalized.
C3_EmailTokensUntouched ==
    PoFormatted =>
        /\ Len(Split(result)) = Len(tokens)
        /\ \A k \in 1..Len(tokens) :
              /\ Contains(tokens[k], "@") => Split(result)[k] = tokens[k]
              /\ (~Contains(tokens[k], "@")
                    /\ IsNameToken(tokens[k], names_lex_lower_set(names_lex)))
                 => out[k] = Capitalize(tokens[k])

\* the token t at place k of n after the edits made to the whole sentence:
\* the first character of the first token upper-cased
SentenceCased(t, k) == IF k = 1 THEN <<ToUpper(t[1])>> \o Tail(t) ELSE t

\* the forms the token t at place k of n may have in the returned sentence
SentenceForms(t, k, n) ==
    LET c == SentenceCased(t, k)
    IN  IF k = n /\ ~EndsWith(c, Endings)
        THEN {c \o <<"?">>, c \o <<".">>}
        ELSE {c}

\* C3 amended: the token loop appends every token holding "@" as it is and
\* every name token capitalized; in the returned sentence each of them is that
\* appended token, but for the first character of the sentence, which is
\* upper-cased, and the "?" or "." appended to a last token that does not end
\* in "?", "." or ",".
C3_EmailTokensUntouchedByTokenLoop ==
    PoFormatted =>
        /\ Len(Split(result)) = Len(tokens)
        /\ Len(out) = Len(tokens)
        /\ \A k \in 1..Len(tokens) :
              /\ Contains(tokens[k], "@") =>
                    /\ out[k] = tokens[k]
                    /\ Split(result)[k] \in SentenceForms(tokens[k], k, Len(tokens))
              /\ (~Contains(tokens[k], "@")
                    /\ IsNameToken(tokens[k], names_lex_lower_set(names_lex))) =>
                    /\ out[k] = Capitalize(tokens[k])
                    /\ Split(result)[k]
                          \in SentenceForms(Capitalize(tokens[k]), k, Len(tokens))

\* C3 witness: process_one has returned a sentence whose last token is an
\* email that is not the first and that had an upper-case name token in it
C3_Witness ==
    /\ PoFormatted
    /\ Len(tokens) = 2
    /\ tokens[1] = <<"A","L","O","K","!">>
    /\ out[1] = <<"A","l","o","k","!">>
    /\ Contains(tokens[2], "@")
    /\ result = <<"A","l","o","k","!"," ","a","@","B",".","c",".">>

\* C8: process_one returns "." when the string is empty after the name
\* capitalization and trimming; otherwise it returns a non-empty string ending
\* in "?", "." or ",": the stripped string with its first character
\* upper-cased, followed by "?" when it ends in none of the three and its
\* lower-cased first word is a question word, by "." when it ends in none of
\* the three and the word is not one, and by nothing when it ends in one.
C8_FinalPunctuation ==
    (fn = "process_one" /\ pc = "done") =>
        LET s0 == Strip(Join(<<" ">>, out))
            cased == <<ToUpper(s0[1])>> \o Tail(s0)
        IN  IF s0 = <<>> THEN result = <<".">>
            ELSE /\ result # <<>>
                 /\ EndsWith(result, {"?", ".", ","})
                 /\ EndsWith(cased, {"?", ".", ","}) => result = cased
                 /\ (~EndsWith(cased, {"?", ".", ","})
                       /\ Lower(Split(cased)[1]) \in QuestionWords)
                    => result = cased \o <<"?">>
                 /\ (~EndsWith(cased, {"?", ".", ","})
                       /\ Lower(Split(cased)[1]) \notin QuestionWords)
                    => result = cased \o <<".">>

\* C8 witness: a question that got its "?"
C8_Witness ==
    /\ fn = "process_one" /\ pc = "done"
    /\ tokens = << <<"i","s">>, <<"a","l","o","k">> >>
    /\ out = << <<"i","s">>, <<"A","l","o","k">> >>
    /\ result = <<"I","s"," ","A","l","o","k","?">>

=============================================================================
